---- MODULE Spec2Model ----
(***************************************************************************)
(* A model of scripts/update_readme.py, the Workbench index generator.     *)
(*                                                                         *)
(* Text is modelled as a sequence of one-character strings.  A path is a   *)
(* record [name, node]: the name the script sees and the object the file   *)
(* system holds under that name.  The document generate_index returns is   *)
(* the sequence of its lines, each line a record holding its variable      *)
(* parts.                                                                   *)
(***************************************************************************)
EXTENDS Integers, Sequences, FiniteSets, TLC

VARIABLES
    fs,             \* the children of WORKBENCH_DIR: name -> node
    pc,             \* where the running script (or the function under test) is
    run,            \* how many times the script has been started
    items,          \* sorted(WORKBENCH_DIR.iterdir()) of the current run
    idx,            \* number of items the loop of build_index has consumed
    categories,     \* the dict being built / passed: sequence of <<name, entries>>
    lines,          \* the list generate_index fills, before it is joined
    index_content,  \* the value returned by generate_index
    stdout,         \* lines printed so far
    exc,            \* the unhandled exception that ended the run, or None
    history,        \* per finished or aborted run: what index.md held before and after
    filepath,       \* argument of the extraction function under test
    result          \* value returned (or exception raised) by the function under test

vars == <<fs, pc, run, items, idx, categories, lines, index_content, stdout, exc,
          history, filepath, result>>

None == [kind |-> "none"]

-----------------------------------------------------------------------------
(* Characters and the str operations the script uses.                      *)

\* The characters of the model, in code-point order.
CodeOrder ==
    <<"\n", " ", "\"", "#", "'", "-", ".", "/",
      "0", "1", "2", "3", "4", "5", "6", "7", "8", "9", ":",
      "A", "B", "C", "D", "E", "F", "G", "H", "I", "J", "K", "L", "M",
      "N", "O", "P", "Q", "R", "S", "T", "U", "V", "W", "X", "Y", "Z", "_",
      "a", "b", "c", "d", "e", "f", "g", "h", "i", "j", "k", "l", "m",
      "n", "o", "p", "q", "r", "s", "t", "u", "v", "w", "x", "y", "z">>

Ord(c) == CHOOSE i \in 1..Len(CodeOrder) : CodeOrder[i] = c

DigitChars == <<"0", "1", "2", "3", "4", "5", "6", "7", "8", "9">>
UpperChars == SubSeq(CodeOrder, Ord("A"), Ord("Z"))
LowerChars == SubSeq(CodeOrder, Ord("a"), Ord("z"))

IsDigit(c) == \E i \in 1..10 : DigitChars[i] = c
IsUpper(c) == \E i \in 1..26 : UpperChars[i] = c
IsLower(c) == \E i \in 1..26 : LowerChars[i] = c
ToUpper(c) == IF IsLower(c) THEN UpperChars[Ord(c) - Ord("a") + 1] ELSE c
ToLower(c) == IF IsUpper(c) THEN LowerChars[Ord(c) - Ord("A") + 1] ELSE c

\* s < t as Python compares str: by code point, a proper prefix first.
RECURSIVE StrLess(_, _)
StrLess(s, t) ==
    IF t = <<>> THEN FALSE
    ELSE IF s = <<>> THEN TRUE
    ELSE IF Head(s) = Head(t) THEN StrLess(Tail(s), Tail(t))
    ELSE Ord(Head(s)) < Ord(Head(t))

\* s[a:b] for 0 <= a, 0 <= b.
Slice(s, a, b) == SubSeq(s, a + 1, IF b > Len(s) THEN Len(s) ELSE b)

StartsWith(s, p) == Len(s) >= Len(p) /\ SubSeq(s, 1, Len(p)) = p
EndsWith(s, p) == Len(s) >= Len(p) /\ SubSeq(s, Len(s) - Len(p) + 1, Len(s)) = p

\* s.find(sub, start): lowest 0-based index >= start where sub occurs, else -1.
Find(s, sub, start) ==
    LET hits == {i \in start..(Len(s) - Len(sub)) : Slice(s, i, i + Len(sub)) = sub}
    IN  IF hits = {} THEN -1 ELSE CHOOSE i \in hits : \A j \in hits : i <= j

\* s.split(sep) for a one-character separator.
RECURSIVE Split(_, _)
Split(s, sep) ==
    LET i == Find(s, <<sep>>, 0)
    IN  IF i = -1 THEN <<s>>
        ELSE <<Slice(s, 0, i)>> \o Split(Slice(s, i + 1, Len(s)), sep)

\* s.lstrip(chars) / s.rstrip(chars) / s.strip(chars), chars a set.
RECURSIVE LStrip(_, _)
LStrip(s, chars) ==
    IF s # <<>> /\ Head(s) \in chars THEN LStrip(Tail(s), chars) ELSE s

RECURSIVE RStrip(_, _)
RStrip(s, chars) ==
    IF s # <<>> /\ s[Len(s)] \in chars
    THEN RStrip(SubSeq(s, 1, Len(s) - 1), chars) ELSE s

StripChars(s, chars) == RStrip(LStrip(s, chars), chars)
Whitespace == {" ", "\n"}
Strip(s) == StripChars(s, Whitespace)

\* s.replace(old, new) for one-character old and new.
Replace(s, old, new) == [i \in 1..Len(s) |-> IF s[i] = old THEN new ELSE s[i]]

\* s.title(): a cased character is upper-cased when the one before it is not
\* cased and lower-cased when it is.
IsCased(c) == IsUpper(c) \/ IsLower(c)
Title(s) ==
    [i \in 1..Len(s) |->
        IF ~IsCased(s[i]) THEN s[i]
        ELSE IF i > 1 /\ IsCased(s[i - 1]) THEN ToLower(s[i])
        ELSE ToUpper(s[i])]

\* "\n".join(lines)
RECURSIVE Join(_)
Join(strs) ==
    IF strs = <<>> THEN <<>>
    ELSE IF Len(strs) = 1 THEN strs[1]
    ELSE strs[1] \o <<"\n">> \o Join(Tail(strs))

-----------------------------------------------------------------------------
(* The file system as the script sees it.                                  *)
(*                                                                         *)
(* A node is what a name of a directory refers to:                         *)
(*   "text"     a regular file that opens and decodes; content is its text *)
(*   "denied"   open() raises PermissionError; stat() works                *)
(*   "binary"   open() works, read() raises UnicodeDecodeError             *)
(*   "dangling" a symbolic link to nothing: open() and stat() raise        *)
(*              FileNotFoundError                                          *)
(*   "dir"      a directory; children maps names to nodes                  *)
(* mtime is the local calendar date of the node's modification time, the   *)
(* fields datetime.fromtimestamp() yields.                                 *)

Ret(v) == [kind |-> "ret", value |-> v]
Raise(e) == [kind |-> "raise", exc |-> e]

\* open(filepath, 'r'): the exception raised, or "" when the file opens.
OpenError(node) ==
    CASE node.kind = "denied" -> "PermissionError"
      [] node.kind = "dangling" -> "FileNotFoundError"
      [] node.kind = "dir" -> "IsADirectoryError"
      [] OTHER -> ""

\* f.read(): the whole text of an open file.
ReadAll(node) ==
    IF node.kind = "binary" THEN Raise("UnicodeDecodeError") ELSE Ret(node.content)

\* f.read(n) ignoring n.
ReadNUnlimited(node, n) ==
    IF node.kind = "binary" THEN Raise("UnicodeDecodeError") ELSE Ret(node.content)

\* f.read(n): at most the first n characters of an open file.
ReadN(node, n) ==
    IF node.kind = "binary" THEN Raise("UnicodeDecodeError")
    ELSE Ret(Slice(node.content, 0, n))

\* os.path.getmtime(filepath), already converted by datetime.fromtimestamp.
GetMtime(node) ==
    IF node.kind = "dangling" THEN Raise("FileNotFoundError") ELSE Ret(node.mtime)

\* The decimal digits of n, zero-padded to width w.
RECURSIVE Decimal(_, _)
Decimal(n, w) ==
    IF w = 0 THEN <<>> ELSE Decimal(n \div 10, w - 1) \o <<DigitChars[(n % 10) + 1]>>

\* dt.strftime('%Y-%m-%d')
Strftime(dt) ==
    Decimal(dt.year, 4) \o <<"-">> \o Decimal(dt.month, 2) \o <<"-">> \o Decimal(dt.day, 2)

\* Path.stem: the name without its last suffix.
Stem(name) ==
    LET dots == {i \in 1..Len(name) : name[i] = "."}
        last == CHOOSE i \in dots : \A j \in dots : j <= i
    IN  IF dots = {} THEN name
        ELSE IF last = 1 \/ last = Len(name) THEN name
        ELSE SubSeq(name, 1, last - 1)

-----------------------------------------------------------------------------
(* get_title_from_file                                                     *)

Dashes == <<"-", "-", "-">>
TitleKey == <<"t", "i", "t", "l", "e", ":">>
H1Mark == <<"#", " ">>
Quotes == {"\"", "'"}

\* The first element of ls that starts with prefix, as <<line>>, or <<>>.
RECURSIVE FirstLineWith(_, _)
FirstLineWith(ls, prefix) ==
    IF ls = <<>> THEN <<>>
    ELSE IF StartsWith(Head(ls), prefix) THEN <<Head(ls)>>
    ELSE FirstLineWith(Tail(ls), prefix)

\* Lines 21-27: the title of the frontmatter as <<title>>, or <<>> when the
\* block falls through to the H1 search.
FrontmatterTitle(content) ==
    IF StartsWith(content, Dashes)
    THEN LET end == Find(content, Dashes, 3)
         IN  IF end # -1
             THEN LET frontmatter == Slice(content, 3, end)
                      hit == FirstLineWith(Split(frontmatter, "\n"), TitleKey)
                  IN  IF hit # <<>>
                      THEN <<StripChars(Strip(Slice(hit[1], 6, Len(hit[1]))), Quotes)>>
                      ELSE <<>>
             ELSE <<>>
    ELSE <<>>

\* Lines 29-31: the first H1 as <<title>>, or <<>>.
FirstH1(content) ==
    LET hit == FirstLineWith(Split(content, "\n"), H1Mark)
    IN  IF hit # <<>> THEN <<Strip(Slice(hit[1], 2, Len(hit[1])))>> ELSE <<>>

\* Line 35: the fallback to the file name.
FilenameTitle(name) == Title(Replace(Stem(name), "-", " "))

\* get_title_from_file with the two searches in the other order.
get_title_h1_first(path) ==
    LET read == IF OpenError(path.node) # "" THEN Raise(OpenError(path.node))
                ELSE ReadAll(path.node)
    IN  IF read.kind = "raise" THEN FilenameTitle(path.name)
        ELSE IF FirstH1(read.value) # <<>> THEN FirstH1(read.value)[1]
        ELSE IF FrontmatterTitle(read.value) # <<>> THEN FrontmatterTitle(read.value)[1]
        ELSE FilenameTitle(path.name)

get_title_from_file(path) ==
    LET read == IF OpenError(path.node) # "" THEN Raise(OpenError(path.node))
                ELSE ReadAll(path.node)
    IN  IF read.kind = "raise" THEN FilenameTitle(path.name)
        ELSE IF FrontmatterTitle(read.value) # <<>> THEN FrontmatterTitle(read.value)[1]
        ELSE IF FirstH1(read.value) # <<>> THEN FirstH1(read.value)[1]
        ELSE FilenameTitle(path.name)

-----------------------------------------------------------------------------
(* get_date_from_file                                                      *)

ReadLimit == 500

\* Whether \d{4}-\d{2}-\d{2} matches s at 0-based index i.
DateAt(s, i) ==
    /\ i + 10 <= Len(s)
    /\ \A k \in 1..10 :
          IF k \in {5, 8} THEN s[i + k] = "-" ELSE IsDigit(s[i + k])

\* The search returning the rightmost match.
ReSearchDateLast(s) ==
    LET hits == {i \in 0..(Len(s) - 10) : DateAt(s, i)}
        last == CHOOSE i \in hits : \A j \in hits : j <= i
    IN  IF hits = {} THEN <<>> ELSE <<Slice(s, last, last + 10)>>

\* re.search(r'(\d{4}-\d{2}-\d{2})', s): <<match.group(1)>>, or <<>>.
ReSearchDate(s) ==
    LET hits == {i \in 0..(Len(s) - 10) : DateAt(s, i)}
        first == CHOOSE i \in hits : \A j \in hits : i <= j
    IN  IF hits = {} THEN <<>> ELSE <<Slice(s, first, first + 10)>>

\* Lines 48-50: the modification date, raising what getmtime raises.
MtimeDate(node) ==
    IF GetMtime(node).kind = "raise" THEN GetMtime(node)
    ELSE Ret(Strftime(GetMtime(node).value))

\* Ret(date), or Raise(e) when the exception leaves the function.
get_date_from_file(path) ==
    LET read == IF OpenError(path.node) # "" THEN Raise(OpenError(path.node))
                ELSE ReadN(path.node, ReadLimit)
    IN  IF read.kind = "raise" THEN MtimeDate(path.node)
        ELSE IF ReSearchDate(read.value) # <<>> THEN Ret(ReSearchDate(read.value)[1])
        ELSE MtimeDate(path.node)

-----------------------------------------------------------------------------
(* Inputs of the extraction functions.                                     *)

MaxLines == 4       \* lines of a file given to get_title_from_file
MaxRuns == 2        \* times the script is run on a tree

SomeDate == [year |-> 2024, month |-> 7, day |-> 9]
TextFile(content) == [kind |-> "text", content |-> content, mtime |-> SomeDate]
FailingFile(kind) == [kind |-> kind, content |-> <<>>, mtime |-> SomeDate]
FailingKinds == {"denied", "binary", "dangling"}

\* ---   |   title: "Fo"   |   title:' a'   |   # B   |   b   |   x---
TitleLines ==
    { Dashes,
      TitleKey \o <<" ", "\"", "F", "o", "\"">>,
      TitleKey \o <<"'", " ", "a", "'", " ">>,
      H1Mark \o <<"B", " ">>,
      <<"b">>,
      <<"x">> \o Dashes }

RECURSIVE SeqsUpTo(_, _)
SeqsUpTo(S, n) ==
    IF n = 0 THEN {<<>>}
    ELSE LET shorter == SeqsUpTo(S, n - 1)
         IN  shorter \cup {Append(q, x) : q \in shorter, x \in S}

\* a-bC.md   |   v2b.md   |   a.b.md
TitleNames ==
    { <<"a", "-", "b", "C", ".", "m", "d">>,
      <<"v", "2", "b", ".", "m", "d">>,
      <<"a", ".", "b", ".", "m", "d">> }

\* The files of at most n lines, and the files that cannot be read.
TitleInputs(n) ==
    {[name |-> nm, node |-> TextFile(Join(ls))] :
        nm \in TitleNames, ls \in SeqsUpTo(TitleLines, n)}
    \cup {[name |-> nm, node |-> FailingFile(k)] : nm \in TitleNames, k \in FailingKinds}

\* The variables the script itself uses, at rest.
ScriptIdle ==
    /\ fs = <<>>
    /\ run = 0
    /\ items = <<>>
    /\ idx = 0
    /\ categories = <<>>
    /\ lines = <<>>
    /\ index_content = <<>>
    /\ stdout = <<>>
    /\ exc = None
    /\ history = <<>>

scriptVars == <<fs, run, items, idx, categories, lines, index_content, stdout, exc,
               history>>

InitTitle ==
    /\ ScriptIdle
    /\ pc = "call_title"
    /\ filepath \in TitleInputs(MaxLines)
    /\ result = None

CallGetTitle ==
    /\ pc = "call_title"
    /\ result' = Ret(get_title_from_file(filepath))
    /\ pc' = "returned_title"
    /\ UNCHANGED <<scriptVars, filepath>>

NextTitle == CallGetTitle

SpecTitle == InitTitle /\ [][NextTitle]_vars

-----------------------------------------------------------------------------
(* C2: the precedence of get_title_from_file.                              *)

Min(S) == CHOOSE x \in S : \A y \in S : x <= y
Max(S) == CHOOSE x \in S : \A y \in S : y <= x

\* Whether p occurs in s at position i (1-based).
HasAt(s, i, p) == i + Len(p) - 1 <= Len(s) /\ SubSeq(s, i, i + Len(p) - 1) = p

\* The positions at which a line of s starts, and the line starting at i.
LineStarts(s) == {i \in 1..Len(s) : i = 1 \/ s[i - 1] = "\n"}
LineFrom(s, i) ==
    LET ends == {j \in i..Len(s) : s[j] = "\n"}
    IN  SubSeq(s, i, IF ends = {} THEN Len(s) ELSE Min(ends) - 1)

\* s without the characters of chars that surround it.
Trimmed(s, chars) ==
    LET keep == {i \in 1..Len(s) : s[i] \notin chars}
    IN  IF keep = {} THEN <<>> ELSE SubSeq(s, Min(keep), Max(keep))

\* The header block of c as <<block>>: what lies between the '---' that opens c
\* and the next '---'; <<>> when c has none.
HeaderBlock(c) ==
    LET closing == {j \in 4..Len(c) : HasAt(c, j, Dashes)}
    IN  IF HasAt(c, 1, Dashes) /\ closing # {}
        THEN <<SubSeq(c, 4, Min(closing) - 1)>> ELSE <<>>

LinesBeginning(s, p) == {i \in LineStarts(s) : HasAt(s, i, p)}

HasHeaderTitle(c) ==
    HeaderBlock(c) # <<>> /\ LinesBeginning(HeaderBlock(c)[1], TitleKey) # {}

HeaderTitle(c) ==
    LET block == HeaderBlock(c)[1]
        line == LineFrom(block, Min(LinesBeginning(block, TitleKey)))
    IN  Trimmed(Trimmed(SubSeq(line, 7, Len(line)), Whitespace), Quotes)

HasHeading(c) == LinesBeginning(c, H1Mark) # {}

HeadingText(c) ==
    LET line == LineFrom(c, Min(LinesBeginning(c, H1Mark)))
    IN  Trimmed(SubSeq(line, 3, Len(line)), Whitespace)

\* The stem of a *.md name with hyphens as spaces and each word (a run of
\* letters) capitalized.
CapitalizedStem(name) ==
    LET stem == SubSeq(name, 1, Len(name) - 3)
    IN  [i \in 1..Len(stem) |->
            IF stem[i] = "-" THEN " "
            ELSE IF ~IsCased(stem[i]) THEN stem[i]
            ELSE IF i > 1 /\ IsCased(stem[i - 1]) THEN ToLower(stem[i])
            ELSE ToUpper(stem[i])]

\* C2: for a readable file the title is the header block's title: value,
\* stripped of surrounding whitespace and then of surrounding quotes, when the
\* content opens with '---' and the block has such a line; otherwise the
\* trimmed text of the first line beginning with '# ' when there is one;
\* otherwise the capitalized file name stem.
C2_TitlePrecedence ==
    (pc = "returned_title" /\ filepath.node.kind = "text") =>
        LET c == filepath.node.content
        IN  result.value =
                IF HasHeaderTitle(c) THEN HeaderTitle(c)
                ELSE IF HasHeading(c) THEN HeadingText(c)
                ELSE CapitalizedStem(filepath.name)

\* A header title is returned although a heading with another text follows.
C2_Witness ==
    /\ pc = "returned_title"
    /\ filepath.node.kind = "text"
    /\ HasHeaderTitle(filepath.node.content)
    /\ HasHeading(filepath.node.content)
    /\ HeadingText(filepath.node.content) = <<"B">>
    /\ result.value = <<"F", "o">>

-----------------------------------------------------------------------------
(* get_date_from_file on files whose text is a run of filler followed by a *)
(* few tokens, so that dates fall before, across and after the read limit. *)

MaxTokens == 3      \* tokens after the filler

\* 2026-01-31 | 1999-13-45 | 05-06-07 | 2026-01-3 | z | -
DateTokens ==
    { <<"2", "0", "2", "6", "-", "0", "1", "-", "3", "1">>,
      <<"1", "9", "9", "9", "-", "1", "3", "-", "4", "5">>,
      <<"0", "5", "-", "0", "6", "-", "0", "7">>,
      <<"2", "0", "2", "6", "-", "0", "1", "-", "3">>,
      <<"z">>,
      <<"-">> }

FillerLengths ==
    {0, ReadLimit - 11, ReadLimit - 10, ReadLimit - 9, ReadLimit - 5, ReadLimit,
     ReadLimit + 1}

Filler(n) == [i \in 1..n |-> "x"]

RECURSIVE Concat(_)
Concat(seqs) == IF seqs = <<>> THEN <<>> ELSE Head(seqs) \o Concat(Tail(seqs))

OtherDate == [year |-> 1999, month |-> 12, day |-> 31]

\* The files of filler and at most n tokens (those whose text starts late are
\* the older ones), and the files that cannot be read.
DateInputs(n) ==
    {[name |-> <<"n", ".", "m", "d">>,
      node |-> [kind |-> "text", content |-> Filler(f) \o Concat(ts),
                mtime |-> IF f = 0 THEN SomeDate ELSE OtherDate]] :
        f \in FillerLengths, ts \in SeqsUpTo(DateTokens, n)}
    \cup {[name |-> <<"n", ".", "m", "d">>,
           node |-> [kind |-> k, content |-> <<>>, mtime |-> m]] :
        k \in FailingKinds, m \in {SomeDate, OtherDate}}

InitDate ==
    /\ ScriptIdle
    /\ pc = "call_date"
    /\ filepath \in DateInputs(MaxTokens)
    /\ result = None

CallGetDate ==
    /\ pc = "call_date"
    /\ result' = get_date_from_file(filepath)
    /\ pc' = "returned_date"
    /\ UNCHANGED <<scriptVars, filepath>>

NextDate == CallGetDate

SpecDate == InitDate /\ [][NextDate]_vars

\* The 0-based positions of the date-shaped substrings of c that lie wholly
\* within its first ReadLimit characters.
DatesInWindow(c) == {i \in 0..(ReadLimit - 10) : DateAt(c, i)}

\* C3 as stated: every date-shaped substring D of the first 500 characters of
\* a readable file is what get_date_from_file returns.
C3_AnyDateReturned ==
    (pc = "returned_date" /\ filepath.node.kind = "text") =>
        LET dates == DatesInWindow(filepath.node.content)
        IN  \A i \in dates : result = Ret(SubSeq(filepath.node.content, i + 1, i + 10))

\* C3 amended: get_date_from_file returns the leftmost date-shaped substring
\* of the first 500 characters of a readable file, whatever surrounds it.
C3_FirstDateReturned ==
    (pc = "returned_date" /\ filepath.node.kind = "text") =>
        LET dates == DatesInWindow(filepath.node.content)
        IN  \A i \in dates :
                (\A j \in dates : i <= j) =>
                    result = Ret(SubSeq(filepath.node.content, i + 1, i + 10))

\* Two different dates lie in the window and the first one is returned.
C3_Witness ==
    /\ pc = "returned_date"
    /\ filepath.node.kind = "text"
    /\ LET dates == DatesInWindow(filepath.node.content)
       IN  /\ \E i, j \in dates :
                 /\ i < j
                 /\ SubSeq(filepath.node.content, i + 1, i + 10)
                       # SubSeq(filepath.node.content, j + 1, j + 10)
           /\ result = Ret(SubSeq(filepath.node.content, Min(dates) + 1, Min(dates) + 10))

\* A modification date written as YYYY-MM-DD.
Digit(n) == DigitChars[n + 1]
YearMonthDay(dt) ==
    << Digit(dt.year \div 1000), Digit((dt.year \div 100) % 10),
       Digit((dt.year \div 10) % 10), Digit(dt.year % 10), "-",
       Digit(dt.month \div 10), Digit(dt.month % 10), "-",
       Digit(dt.day \div 10), Digit(dt.day % 10) >>

\* What the fallback to the modification time yields: the formatted date, or
\* the error of the stat call.
FellBack ==
    \/ result = Ret(YearMonthDay(filepath.node.mtime))
    \/ result.kind = "raise"

-----------------------------------------------------------------------------
(* generate_index                                                          *)
(*                                                                         *)
(* categories is the dict as a sequence of <<name, entries>> in insertion  *)
(* order; entries is a sequence of <<title, path, date>>.                  *)

Keys(cats) == {cats[k][1] : k \in 1..Len(cats)}
KeyIndex(cats, name) == CHOOSE k \in 1..Len(cats) : cats[k][1] = name

\* sorted(names) for distinct names: ascending by str comparison.
RECURSIVE SortNames(_)
SortNames(names) ==
    IF names = {} THEN <<>>
    ELSE LET least == CHOOSE n \in names : \A o \in names \ {n} : StrLess(n, o)
         IN  <<least>> \o SortNames(names \ {least})

\* sorted(entries, key=lambda x: x[2], reverse=True): descending by date, the
\* entries of equal date in their original order.
RECURSIVE InsertByDateDesc(_, _)
InsertByDateDesc(sorted, e) ==
    IF sorted = <<>> THEN <<e>>
    ELSE IF StrLess(Head(sorted)[3], e[3]) THEN <<e>> \o sorted
    ELSE <<Head(sorted)>> \o InsertByDateDesc(Tail(sorted), e)

RECURSIVE SortInto(_, _)
SortInto(sorted, entries) ==
    IF entries = <<>> THEN sorted
    ELSE SortInto(InsertByDateDesc(sorted, Head(entries)), Tail(entries))

\* The entries left in the order given.
Unsorted(entries) == entries

SortedByDateDesc(entries) == SortInto(<<>>, entries)

\* A line of the list lines: fixed text, or the parts an f-string puts together.
Text(chars) == [kind |-> "text", text |-> chars]

\* The character U+2014 of line 106, one element of the text.
EmDash == "u2014"

\* Line 78.
IntroLine ==
    <<"T", "o", "o", "l", "s", ",", " ", "s", "c", "r", "i", "p", "t", "s",
      ",", " ", "a", "n", "d", " ", "w", "o", "r", "k", "f", "l", "o", "w",
      " ", "i", "m", "p", "r", "o", "v", "e", "m", "e", "n", "t", "s", " ",
      "I", "'", "m", " ", "b", "u", "i", "l", "d", "i", "n", "g", " ", "-",
      " ", "p", "u", "b", "l", "i", "s", "h", "e", "d", " ", "a", "s", " ",
      "I", " ", "g", "o", ".">>

\* Line 106.
AboutLine ==
    <<"T", "h", "i", "s", " ", "i", "s", " ", "w", "h", "e", "r", "e", " ",
      "I", " ", "d", "o", "c", "u", "m", "e", "n", "t", " ", "t", "h", "e",
      " ", "t", "o", "o", "l", "s", " ", "a", "n", "d", " ", "s", "y", "s",
      "t", "e", "m", "s", " ", "I", " ", "b", "u", "i", "l", "d", " ", "t",
      "o", " ", "i", "m", "p", "r", "o", "v", "e", " ", "h", "o", "w", " ",
      "I", " ", "w", "o", "r", "k", ".", " ", "N", "o", "t", " ", "p", "o",
      "l", "i", "s", "h", "e", "d", " ", "b", "l", "o", "g", " ", "p", "o",
      "s", "t", "s", EmDash, "p", "r", "a", "c", "t", "i", "c", "a", "l",
      " ", "w", "r", "i", "t", "e", "-", "u", "p", "s", " ", "o", "n", " ",
      "t", "h", "i", "n", "g", "s", " ", "I", "'", "v", "e", " ", "a", "c",
      "t", "u", "a", "l", "l", "y", " ", "b", "u", "i", "l", "t", " ", "a",
      "n", "d", " ", "u", "s", "e", ".">>

\* Line 108.
InspiredLine ==
    <<"I", "n", "s", "p", "i", "r", "e", "d", " ", "b", "y", " ", "[", "S",
      "i", "m", "o", "n", " ", "W", "i", "l", "l", "i", "s", "o", "n", "'",
      "s", " ", "T", "I", "L", "]", "(", "h", "t", "t", "p", "s", ":", "/",
      "/", "t", "i", "l", ".", "s", "i", "m", "o", "n", "w", "i", "l", "l",
      "i", "s", "o", "n", ".", "n", "e", "t", "/", ")", ".">>

\* Line 112.
LicenseLine ==
    <<"T", "h", "i", "s", " ", "w", "o", "r", "k", " ", "i", "s", " ", "l",
      "i", "c", "e", "n", "s", "e", "d", " ", "u", "n", "d", "e", "r", " ",
      "a", " ", "[", "C", "r", "e", "a", "t", "i", "v", "e", " ", "C", "o",
      "m", "m", "o", "n", "s", " ", "A", "t", "t", "r", "i", "b", "u", "t",
      "i", "o", "n", " ", "4", ".", "0", " ", "I", "n", "t", "e", "r", "n",
      "a", "t", "i", "o", "n", "a", "l", " ", "L", "i", "c", "e", "n", "s",
      "e", "]", "(", "h", "t", "t", "p", "s", ":", "/", "/", "c", "r", "e",
      "a", "t", "i", "v", "e", "c", "o", "m", "m", "o", "n", "s", ".", "o",
      "r", "g", "/", "l", "i", "c", "e", "n", "s", "e", "s", "/", "b", "y",
      "/", "4", ".", "0", "/", ")", ".">>

\* Lines 72-82.
Preamble ==
    << Text(Dashes),
       Text(<<"l", "a", "y", "o", "u", "t", ":", " ", "h", "o", "m", "e">>),
       Text(<<"t", "i", "t", "l", "e", ":", " ", "W", "o", "r", "k", "b", "e", "n", "c", "h">>),
       Text(Dashes), Text(<<>>), Text(IntroLine), Text(<<>>), Text(Dashes), Text(<<>>) >>

\* Lines 101-113.
Footer ==
    << Text(Dashes), Text(<<>>),
       Text(<<"#", "#", " ", "A", "b", "o", "u", "t">>), Text(<<>>),
       Text(AboutLine), Text(<<>>), Text(InspiredLine), Text(<<>>),
       Text(<<"#", "#", " ", "L", "i", "c", "e", "n", "s", "e">>), Text(<<>>),
       Text(LicenseLine) >>

\* Line 85: sum(len(entries) for entries in categories.values())
RECURSIVE Total(_)
Total(cats) == IF cats = <<>> THEN 0 ELSE Len(Head(cats)[2]) + Total(Tail(cats))

\* The count line with the plural for every total above one.
CountLinePluralAboveOne(total) ==
    [kind |-> "count", total |-> total, suffix |-> IF total > 1 THEN <<"s">> ELSE <<>>]

\* Line 86: f"_{total} project{'s' if total != 1 else ''} so far._"
CountLine(total) ==
    [kind |-> "count", total |-> total, suffix |-> IF total # 1 THEN <<"s">> ELSE <<>>]

\* Line 94: f"## {display_name}"
HeadingLine(category) ==
    [kind |-> "heading", display_name |-> Title(Replace(category, "-", " "))]

\* Line 97: f"- [{title}]({path}) - {date}"
ItemLine(e) == [kind |-> "item", title |-> e[1], path |-> e[2], date |-> e[3]]

\* Lines 91-98: the lines of one category.
Section(category, entries) ==
    LET sorted == SortedByDateDesc(entries)
    IN  <<HeadingLine(category), Text(<<>>)>>
        \o [i \in 1..Len(sorted) |-> ItemLine(sorted[i])]
        \o <<Text(<<>>)>>

\* Lines 90-98: the sections of the categories named, in that order.
RECURSIVE Sections(_, _)
Sections(names, cats) ==
    IF names = <<>> THEN <<>>
    ELSE Section(Head(names), cats[KeyIndex(cats, Head(names))][2])
         \o Sections(Tail(names), cats)

\* The list lines as it stands at line 115.
IndexLines(cats) ==
    Preamble
    \o <<CountLine(Total(cats)), Text(<<>>)>>
    \o Sections(SortNames(Keys(cats)), cats)
    \o Footer

\* str(n) of an int n >= 0.
RECURSIVE IntStr(_)
IntStr(n) == IF n < 10 THEN <<DigitChars[n + 1]>> ELSE IntStr(n \div 10) \o <<DigitChars[(n % 10) + 1]>>

\* The text of a line.
LineText(line) ==
    CASE line.kind = "text" -> line.text
      [] line.kind = "count" ->
            <<"_">> \o IntStr(line.total)
            \o <<" ", "p", "r", "o", "j", "e", "c", "t">> \o line.suffix
            \o <<" ", "s", "o", " ", "f", "a", "r", ".", "_">>
      [] line.kind = "heading" -> <<"#", "#", " ">> \o line.display_name
      [] line.kind = "item" ->
            <<"-", " ", "[">> \o line.title \o <<"]", "(">> \o line.path
            \o <<")", " ", "-", " ">> \o line.date

\* Line 115: "\n".join(lines)
generate_index(list) == Join([i \in 1..Len(list) |-> LineText(list[i])])

-----------------------------------------------------------------------------
(* generate_index on arbitrary mappings.                                   *)

MaxEntries == 3     \* entries of a mapping given to generate_index, in all

\* B | a-b | b
RenderNames == { <<"B">>, <<"a", "-", "b">>, <<"b">> }

\* Dates as arbitrary strings: 2026 | 2025 | 9
RenderEntries ==
    { << <<"T">>, <<"p">>, <<"2", "0", "2", "6">> >>,
      << <<"U">>, <<"p">>, <<"2", "0", "2", "6">> >>,
      << <<"T">>, <<"p">>, <<"2", "0", "2", "5">> >>,
      << <<"T">>, <<"p">>, <<"9">> >> }

\* The sequences of distinct elements of S.
RECURSIVE Arrangements(_)
Arrangements(S) ==
    {<<>>} \cup UNION {{<<x>> \o q : q \in Arrangements(S \ {x})} : x \in S}

\* The mappings with the given keys, in that order, and at most n entries.
RECURSIVE Mappings(_, _)
Mappings(keys, n) ==
    IF keys = <<>> THEN {<<>>}
    ELSE UNION {{<< <<Head(keys), es>> >> \o rest : rest \in Mappings(Tail(keys), n - Len(es))} :
                    es \in SeqsUpTo(RenderEntries, n)}

\* The mappings of at most n entries.
RenderInputs(n) == UNION {Mappings(keys, n) : keys \in Arrangements(RenderNames)}

InitRender ==
    /\ fs = <<>>
    /\ run = 0
    /\ items = <<>>
    /\ idx = 0
    /\ categories \in RenderInputs(MaxEntries)
    /\ lines = <<>>
    /\ index_content = <<>>
    /\ stdout = <<>>
    /\ exc = None
    /\ history = <<>>
    /\ filepath = None
    /\ result = None
    /\ pc = "call_generate"

CallGenerateIndex ==
    /\ pc = "call_generate"
    /\ lines' = IndexLines(categories)
    /\ index_content' = generate_index(IndexLines(categories))
    /\ pc' = "returned_generate"
    /\ UNCHANGED <<fs, run, items, idx, categories, stdout, exc, history, filepath, result>>

NextRender == CallGenerateIndex

SpecRender == InitRender /\ [][NextRender]_vars

\* The positions of the lines of one kind in a document.
LinesOfKind(doc, kind) == {i \in 1..Len(doc) : doc[i].kind = kind}

\* The number of entries of a mapping, over all its categories.
EntryCount(cats) ==
    Cardinality(UNION {{<<k, j>> : j \in 1..Len(cats[k][2])} : k \in 1..Len(cats)})

\* The k-th line of a text.
TextLine(s, k) ==
    LET breaks == {j \in 1..Len(s) : s[j] = "\n"}
        break(n) == IF n = 0 THEN 0
                    ELSE IF n > Cardinality(breaks) THEN Len(s) + 1
                    ELSE CHOOSE j \in breaks : Cardinality({x \in breaks : x < j}) = n - 1
    IN  SubSeq(s, break(k - 1) + 1, break(k) - 1)

\* C4: the document has exactly one count line, "_N project[s] so far._"; N is
\* the number of entries over all categories, and the suffix is "s" when N is
\* 0 or at least 2 and absent exactly when N is 1.
C4_CountLine ==
    pc = "returned_generate" =>
        /\ Cardinality(LinesOfKind(lines, "count")) = 1
        /\ \A i \in LinesOfKind(lines, "count") :
              /\ lines[i].total = EntryCount(categories)
              /\ (EntryCount(categories) = 0 \/ EntryCount(categories) >= 2)
                    => lines[i].suffix = <<"s">>
              /\ (EntryCount(categories) = 1) <=> (lines[i].suffix = <<>>)
              /\ TextLine(index_content, i) =
                    <<"_">> \o IntStr(EntryCount(categories))
                    \o <<" ", "p", "r", "o", "j", "e", "c", "t">>
                    \o (IF EntryCount(categories) = 1 THEN <<>> ELSE <<"s">>)
                    \o <<" ", "s", "o", " ", "f", "a", "r", ".", "_">>

\* A mapping without entries is rendered with the plural.
C4_Witness ==
    /\ pc = "returned_generate"
    /\ categories # <<>>
    /\ EntryCount(categories) = 0
    /\ \E i \in LinesOfKind(lines, "count") :
          lines[i].total = 0 /\ lines[i].suffix = <<"s">>

\* The elements of a set of positions, in ascending order.
RECURSIVE Ascending(_)
Ascending(S) == IF S = {} THEN <<>> ELSE <<Min(S)>> \o Ascending(S \ {Min(S)})

\* The name shown for a category.
Shown(name) == Title([i \in 1..Len(name) |-> IF name[i] = "-" THEN " " ELSE name[i]])

\* The key of a mapping that has exactly k - 1 keys below it.
KeyOfRank(cats, k) ==
    CHOOSE name \in Keys(cats) :
        Cardinality({o \in Keys(cats) : StrLess(o, name)}) = k - 1

\* C5: the sections of the document are those of the categories in ascending
\* order of name, and any two list lines that follow one another have dates
\* that do not increase under str comparison.
C5_Ordering ==
    pc = "returned_generate" =>
        LET heads == Ascending(LinesOfKind(lines, "heading"))
        IN  /\ Len(heads) = Cardinality(Keys(categories))
            /\ \A k \in 1..Len(heads) :
                  lines[heads[k]].display_name = Shown(KeyOfRank(categories, k))
            /\ \A i \in 1..(Len(lines) - 1) :
                  (lines[i].kind = "item" /\ lines[i + 1].kind = "item")
                      => ~StrLess(lines[i].date, lines[i + 1].date)

\* A mapping built in descending order of name, with a category whose entries
\* were given in ascending order of date, one of them not ISO-shaped.
C5_Witness ==
    /\ pc = "returned_generate"
    /\ Len(categories) = 2
    /\ StrLess(categories[2][1], categories[1][1])
    /\ Len(categories[1][2]) = 3
    /\ StrLess(categories[1][2][1][3], categories[1][2][2][3])
    /\ StrLess(categories[1][2][2][3], categories[1][2][3][3])
    /\ Cardinality(LinesOfKind(lines, "item")) = 3

-----------------------------------------------------------------------------
(* build_index and the script's main block.                                *)

\* Line 13.
EXCLUDED_DIRS ==
    { <<".", "g", "i", "t">>,
      <<".", "g", "i", "t", "h", "u", "b">>,
      <<"_", "s", "i", "t", "e">>,
      <<"s", "c", "r", "i", "p", "t", "s">>,
      <<"_", "_", "p", "y", "c", "a", "c", "h", "e", "_", "_">> }

MdSuffix == <<".", "m", "d">>
IndexName == <<"i", "n", "d", "e", "x">> \o MdSuffix

\* Line 57.
IsIncluded(name, node) ==
    /\ node.kind = "dir"
    /\ name \notin EXCLUDED_DIRS
    /\ ~StartsWith(name, <<"_">>)

\* Line 59: sorted(item.glob('*.md'))
GlobMd(children) == SortNames({n \in DOMAIN children : EndsWith(n, MdSuffix)})

\* The relative path as the file name alone.
RelPathNameOnly(dir, name) == name

\* Line 62: str(md_file.relative_to(WORKBENCH_DIR))
RelPath(dir, name) == dir \o <<"/">> \o name

\* Lines 58-63: Ret(entries), or the exception an extraction lets through.
RECURSIVE Extract(_, _, _)
Extract(dir, children, md_files) ==
    IF md_files = <<>> THEN Ret(<<>>)
    ELSE LET md_file == [name |-> Head(md_files), node |-> children[Head(md_files)]]
             title == get_title_from_file(md_file)
             date == get_date_from_file(md_file)
             rest == Extract(dir, children, Tail(md_files))
         IN  IF date.kind = "raise" THEN date
             ELSE IF rest.kind = "raise" THEN rest
             ELSE Ret(<< <<title, RelPath(dir, md_file.name), date.value>> >> \o rest.value)

\* The dict after a category is stored whatever its entries.
WithCategoryAlways(cats, name, entries) == Append(cats, <<name, entries>>)

\* Lines 65-66.
WithCategory(cats, name, entries) ==
    IF entries # <<>> THEN Append(cats, <<name, entries>>) ELSE cats

\* The output placed in the scanned directory notes.
index_path_in_notes == <<<<"n", "o", "t", "e", "s">>, IndexName>>

\* Line 123: WORKBENCH_DIR / "index.md", relative to WORKBENCH_DIR.
index_path == <<IndexName>>

\* What the file at index_path holds.
OutputFile(tree) ==
    IF IndexName \in DOMAIN tree
    THEN [exists |-> TRUE, content |-> tree[IndexName].content]
    ELSE [exists |-> FALSE, content |-> <<>>]

Today == [year |-> 2026, month |-> 11, day |-> 1]

\* Lines 124-125: the tree after open(path, 'w') and f.write(content).
WriteFile(tree, path, content) ==
    LET node == [kind |-> "text", content |-> content, mtime |-> Today]
    IN  IF Len(path) = 1 THEN (path[1] :> node) @@ tree
        ELSE IF path[1] \in DOMAIN tree /\ tree[path[1]].kind = "dir"
        THEN [tree EXCEPT ![path[1]].children = (path[2] :> node) @@ @]
        ELSE tree

\* The main block with the write ahead of the scan.
StepAfterWriteFirst(step) ==
    CASE step = "start" -> "write"
      [] step = "write" -> "build"
      [] step = "build" -> "generate"
      [] step = "generate" -> "print"
      [] step = "print" -> "done"

\* Lines 119-129: the statement that follows each statement of the main block.
StepAfter(step) ==
    CASE step = "start" -> "build"
      [] step = "build" -> "generate"
      [] step = "generate" -> "write"
      [] step = "write" -> "print"
      [] step = "print" -> "done"

\* The record of a run: what index.md held when it started, the statements
\* of the main block it has completed, and what it wrote.
NewRun(tree) == [before |-> OutputFile(tree), steps |-> <<>>, wrote |-> <<>>]
Completed(h, step) == [h EXCEPT ![Len(h)].steps = Append(@, step)]

\* The script is started.
Start ==
    /\ pc \in {"start", "done", "aborted"}
    /\ run < MaxRuns
    /\ run' = run + 1
    /\ pc' = StepAfter("start")
    /\ items' = <<>>
    /\ idx' = 0
    /\ categories' = <<>>
    /\ lines' = <<>>
    /\ index_content' = <<>>
    /\ stdout' = <<>>
    /\ exc' = None
    /\ history' = Append(history, NewRun(fs))
    /\ UNCHANGED <<fs, filepath, result>>

\* Lines 54 and 56: build_index lists the root.
Iterdir ==
    /\ pc = "build"
    /\ items' = SortNames(DOMAIN fs)
    /\ idx' = 0
    /\ categories' = <<>>
    /\ pc' = "scan"
    /\ UNCHANGED <<fs, run, lines, index_content, stdout, exc, history, filepath, result>>

\* Lines 56-66: one turn of the loop of build_index.
ScanItem ==
    /\ pc = "scan"
    /\ idx < Len(items)
    /\ LET item == items[idx + 1]
           node == fs[item]
           entries == IF IsIncluded(item, node)
                      THEN Extract(item, node.children, GlobMd(node.children))
                      ELSE Ret(<<>>)
       IN  IF entries.kind = "raise"
           THEN /\ pc' = "aborted"
                /\ exc' = entries
                /\ UNCHANGED <<idx, categories>>
           ELSE /\ categories' = WithCategory(categories, item, entries.value)
                /\ idx' = idx + 1
                /\ UNCHANGED <<pc, exc>>
    /\ UNCHANGED <<fs, run, items, lines, index_content, stdout, history, filepath, result>>

\* Line 68 and line 120: build_index returns.
ReturnIndex ==
    /\ pc = "scan"
    /\ idx = Len(items)
    /\ pc' = StepAfter("build")
    /\ history' = Completed(history, "build")
    /\ UNCHANGED <<fs, run, items, idx, categories, lines, index_content, stdout, exc,
                   filepath, result>>

\* Line 121.
Generate ==
    /\ pc = "generate"
    /\ lines' = IndexLines(categories)
    /\ index_content' = generate_index(IndexLines(categories))
    /\ pc' = StepAfter("generate")
    /\ history' = Completed(history, "generate")
    /\ UNCHANGED <<fs, run, items, idx, categories, stdout, exc, filepath, result>>

\* Lines 123-125.
Write ==
    /\ pc = "write"
    /\ fs' = WriteFile(fs, index_path, index_content)
    /\ pc' = StepAfter("write")
    /\ history' = [Completed(history, "write") EXCEPT ![Len(history)].wrote = <<index_content>>]
    /\ UNCHANGED <<run, items, idx, categories, lines, index_content, stdout, exc,
                   filepath, result>>

\* Lines 127-129.
WriteSummary ==
    /\ pc = "print"
    /\ stdout' = << [said |-> "Updated", path |-> index_path],
                    [said |-> "Categories", keys |-> [k \in 1..Len(categories) |-> categories[k][1]]],
                    [said |-> "Total projects", total |-> Total(categories)] >>
    /\ pc' = StepAfter("print")
    /\ history' = Completed(history, "print")
    /\ UNCHANGED <<fs, run, items, idx, categories, lines, index_content, exc,
                   filepath, result>>

\* The trees the script is run on.  Every tree holds four entries that the
\* scan must pass over: .git and scripts (excluded by name), _drafts (leading
\* underscore), each with a markdown file inside, and the regular file
\* README.md.  It may hold the directories dev-tools and notes, each with
\* some of a.md and b-c.md, and an index.md left by an earlier run.

\* ---\ntitle: "CLI"\n---\n# Ig\non 2025-03-10   |   # N\nold   |   (empty)
MdTexts ==
    { Join(<< Dashes,
              TitleKey \o <<" ", "\"", "C", "L", "I", "\"">>,
              Dashes,
              H1Mark \o <<"I", "g">>,
              <<"o", "n", " ", "2", "0", "2", "5", "-", "0", "3", "-", "1", "0">> >>),
      Join(<< H1Mark \o <<"N">>, <<"o", "l", "d">> >>),
      <<>> }

MdNodes ==
    {TextFile(c) : c \in MdTexts} \cup {FailingFile(k) : k \in FailingKinds}

MdNameA == <<"a">> \o MdSuffix
MdNameB == <<"b", "-", "c">> \o MdSuffix
TxtName == <<"t", ".", "t", "x", "t">>

\* The functions from a subset of the names to nodes.
Files(names, nodes) == UNION {[present -> nodes] : present \in SUBSET names}

Dir(children) == [kind |-> "dir", children |-> children]

Decoys ==
    (<<".", "g", "i", "t">> :> Dir(MdNameA :> TextFile(<<>>)))
    @@ (<<"s", "c", "r", "i", "p", "t", "s">> :> Dir(MdNameA :> TextFile(<<>>)))
    @@ (<<"_", "d", "r", "a", "f", "t", "s">> :> Dir(MdNameA :> TextFile(<<>>)))
    @@ (<<"R", "E", "A", "D", "M", "E">> \o MdSuffix :> TextFile(H1Mark \o <<"R">>))

DevTools == <<"d", "e", "v", "-", "t", "o", "o", "l", "s">>
Notes == <<"n", "o", "t", "e", "s">>

\* dev-tools holds markdown files only; notes also holds t.txt.
Candidates ==
    { <<>> }
    \cup {DevTools :> Dir(f) : f \in Files({MdNameA, MdNameB}, MdNodes)}
    \cup {Notes :> Dir(f @@ (TxtName :> TextFile(<<"t">>))) :
            f \in Files({MdNameA}, MdNodes)}
    \cup {(DevTools :> Dir(f)) @@ (Notes :> Dir(g @@ (TxtName :> TextFile(<<"t">>)))) :
            f \in Files({MdNameA, MdNameB}, MdNodes), g \in Files({MdNameA}, MdNodes)}

OldIndex == {<<>>, IndexName :> TextFile(<<"o", "l", "d">>)}

Trees == {c @@ o @@ Decoys : c \in Candidates, o \in OldIndex}

Init ==
    /\ fs \in Trees
    /\ pc = "start"
    /\ run = 0
    /\ items = <<>>
    /\ idx = 0
    /\ categories = <<>>
    /\ lines = <<>>
    /\ index_content = <<>>
    /\ stdout = <<>>
    /\ exc = None
    /\ history = <<>>
    /\ filepath = None
    /\ result = None

Next == Start \/ Iterdir \/ ScanItem \/ ReturnIndex \/ Generate \/ Write \/ WriteSummary

Spec == Init /\ [][Next]_vars

-----------------------------------------------------------------------------
(* Properties of a run.                                                    *)

\* The run in progress has completed this statement of the main block.
Did(step) ==
    /\ history # <<>>
    /\ \E i \in 1..Len(history[Len(history)].steps) :
          history[Len(history)].steps[i] = step

IsMdName(n) ==
    Len(n) >= 3 /\ n[Len(n) - 2] = "." /\ n[Len(n) - 1] = "m" /\ n[Len(n)] = "d"

\* An immediate child of the root that is a directory, is none of .git,
\* .github, _site, scripts, __pycache__, and has no leading underscore.
Scanned(tree, n) ==
    /\ tree[n].kind = "dir"
    /\ n \notin { <<".", "g", "i", "t">>, <<".", "g", "i", "t", "h", "u", "b">>,
                 <<"_", "s", "i", "t", "e">>, <<"s", "c", "r", "i", "p", "t", "s">>,
                 <<"_", "_", "p", "y", "c", "a", "c", "h", "e", "_", "_">> }
    /\ n[1] # "_"

MdFilesOf(tree, n) == {c \in DOMAIN tree[n].children : IsMdName(c)}

\* The <<directory, file>> pairs the scan matches.
MatchedPaths(tree) ==
    UNION {{<<d, n>> : n \in MdFilesOf(tree, d)} : d \in {x \in DOMAIN tree : Scanned(tree, x)}}

PathText(d, n) == d \o <<"/">> \o n

\* C1: the categories build_index returns are exactly the scanned directories
\* that hold at least one *.md entry, each once, and the headings rendered are
\* theirs; a scanned directory without one is no category.
C1_Categories ==
    /\ Did("build") =>
          /\ Keys(categories) =
                {n \in DOMAIN fs : Scanned(fs, n) /\ MdFilesOf(fs, n) # {}}
          /\ Len(categories) = Cardinality(Keys(categories))
          /\ \A k \in 1..Len(categories) : categories[k][2] # <<>>
    /\ Did("generate") =>
          /\ Cardinality(LinesOfKind(lines, "heading")) = Len(categories)
          /\ {lines[i].display_name : i \in LinesOfKind(lines, "heading")}
                = {Shown(n) : n \in Keys(categories)}

\* notes holds t.txt alone and is no category, while dev-tools is one and the
\* directories the scan passes over are none.
C1_Witness ==
    /\ Did("build")
    /\ Notes \in DOMAIN fs
    /\ DOMAIN fs[Notes].children = {TxtName}
    /\ Keys(categories) = {DevTools}

\* The heading above line i of a document.
HeadingAbove(doc, i) ==
    doc[Max({h \in LinesOfKind(doc, "heading") : h < i})].display_name

\* C10: each matched path has exactly one list line, under the heading of its
\* directory and carrying its path; each list line belongs to a matched path;
\* the number of the count line is the number of list lines.
C10_Conservation ==
    Did("generate") =>
        LET matched == MatchedPaths(fs)
            listed == LinesOfKind(lines, "item")
        IN  /\ \A p \in matched :
                  /\ Cardinality({i \in listed : lines[i].path = PathText(p[1], p[2])}) = 1
                  /\ \A i \in listed :
                        lines[i].path = PathText(p[1], p[2])
                            => HeadingAbove(lines, i) = Shown(p[1])
            /\ \A i \in listed :
                  \E p \in matched : lines[i].path = PathText(p[1], p[2])
            /\ Cardinality(LinesOfKind(lines, "count")) = 1
            /\ \A c \in LinesOfKind(lines, "count") : lines[c].total = Cardinality(listed)

\* Three files in two directories, one of them unreadable, give three lines.
C10_Witness ==
    /\ Did("generate")
    /\ Cardinality(MatchedPaths(fs)) = 3
    /\ Cardinality(LinesOfKind(lines, "item")) = 3
    /\ Cardinality(LinesOfKind(lines, "heading")) = 2
    /\ \E p \in MatchedPaths(fs) : fs[p[1]].children[p[2]].kind = "denied"

\* The path of the output file as the list lines write paths.
OutputPathText ==
    IF Len(index_path) = 1 THEN index_path[1] ELSE PathText(index_path[1], index_path[2])

\* C6: a run that follows a run which wrote index.md writes the same text, and
\* none of its list lines is the file written.
C6_Idempotent ==
    (run >= 2 /\ history[run - 1].wrote # <<>>) =>
        /\ Did("write") => history[run].wrote = history[run - 1].wrote
        /\ Did("generate") =>
              \A i \in LinesOfKind(lines, "item") :
                  lines[i].path # OutputPathText

\* The first run created index.md; the second wrote the same text, which has
\* list lines, one of them dated by a modification time.
C6_Witness ==
    /\ run = 2
    /\ Did("write")
    /\ ~history[1].before.exists
    /\ history[2].before = [exists |-> TRUE, content |-> history[1].wrote[1]]
    /\ history[2].wrote = history[1].wrote
    /\ Cardinality(LinesOfKind(lines, "item")) >= 2
    /\ \E i \in LinesOfKind(lines, "item") : lines[i].date = YearMonthDay(SomeDate)

\* C7 as stated: no failure while a matched file's title or date is extracted
\* ends the run, and build_index returns an entry for every matched path, with
\* the title of the file name and the modification date when the file cannot
\* be read.
C7_NoEntryDropped ==
    /\ pc # "aborted"
    /\ Did("build") =>
          \A p \in MatchedPaths(fs) :
              \E k \in 1..Len(categories) :
                  /\ categories[k][1] = p[1]
                  /\ \E j \in 1..Len(categories[k][2]) :
                        /\ categories[k][2][j][2] = PathText(p[1], p[2])
                        /\ fs[p[1]].children[p[2]].kind # "text" =>
                              /\ categories[k][2][j][1] = CapitalizedStem(p[2])
                              /\ categories[k][2][j][3]
                                    = YearMonthDay(fs[p[1]].children[p[2]].mtime)

\* Whether statement a comes before statement b among the completed ones.
Before(steps, a, b) ==
    \E i, j \in 1..Len(steps) : i < j /\ steps[i] = a /\ steps[j] = b

\* C8: in every run index.md is written only after build_index and
\* generate_index have returned, and holds until then what it held when the
\* run started, also when the run is ended by an exception; the summary is
\* printed only after the write.
C8_WriteLast ==
    \A r \in 1..Len(history) :
        LET steps == history[r].steps
            has(step) == \E i \in 1..Len(steps) : steps[i] = step
        IN  /\ has("write") => Before(steps, "build", "write") /\ Before(steps, "generate", "write")
            /\ has("print") => Before(steps, "write", "print")
            /\ (r = run /\ ~has("write")) => OutputFile(fs) = history[r].before
            /\ (r = run /\ has("write")) => OutputFile(fs).content = index_content
            /\ (r = run /\ stdout # <<>>) => has("write")
            /\ (r = run /\ pc = "aborted") => ~has("write") /\ stdout = <<>>

\* A run ended by an exception after it had collected a category; index.md
\* holds what it held before the run.
C8_Witness ==
    /\ pc = "aborted"
    /\ categories # <<>>
    /\ history[run].before.exists
    /\ OutputFile(fs) = history[run].before
    /\ exc.exc = "FileNotFoundError"

====
